---------------------------- MODULE Spec2Model ----------------------------
(***************************************************************************)
(* A model of page_process_mining_made_easy.py: the Streamlit page script  *)
(* (one run of the script per user interaction and session), its           *)
(* temporary-file janitor clear_tempfiles, the duration formatter          *)
(* make_text_from_seconds and the conversion load_event_log_from_dataframe.*)
(*                                                                         *)
(* Three groups of variables, one per part of the program:                 *)
(*   seconds, text                       a call of make_text_from_seconds  *)
(*   call, lpc, rows_left, new_data,                                       *)
(*   handed                              a call of                         *)
(*                                       load_event_log_from_dataframe     *)
(*   clock, scratch, outside, widgets,                                     *)
(*   run                                 the sessions running the script   *)
(* Each specification moves one group and leaves the others at rest.       *)
(***************************************************************************)
EXTENDS Integers, Sequences, FiniteSets, TLC

VARIABLES
    seconds,    \* the argument of make_text_from_seconds, in 1/Resolution s
    text,       \* the string it returned, NoText before the call
    call,       \* the arguments of a call of load_event_log_from_dataframe
    lpc,        \* where that call stands: "call", "loop", "done"
    rows_left,  \* the rows df.iterrows() has still to yield
    new_data,   \* the dict of lists the loop fills
    handed,     \* the rows of the frame passed to pm4py.format_dataframe
    clock,      \* time.time(), in seconds
    scratch,    \* the entries of the scratch directory, by name
    outside,    \* the files outside the scratch directory, by name
    widgets,    \* per session: the values of the page's widgets
    run         \* per session: the script's position and variables, and
                \* what the page shows

vars ==
    <<seconds, text, call, lpc, rows_left, new_data, handed,
      clock, scratch, outside, widgets, run>>

textOther ==
    <<call, lpc, rows_left, new_data, handed, clock, scratch, outside, widgets, run>>
logOther == <<seconds, text, clock, scratch, outside, widgets, run>>

None == "None"

(***************************************************************************)
(* make_text_from_seconds (lines 87-102).                                  *)
(*                                                                         *)
(* The argument is a float; the model takes it from the grid of multiples  *)
(* of 1/Resolution seconds and holds it as the integer numerator n, so     *)
(* that the value is n / Resolution.                                       *)
(***************************************************************************)
Resolution == 2
Window == 10

NoText == "<not called>"

\* round(x, 0) of x = num/den: to the nearest integer, a tie to the even one
\* (Python's round and numpy's rint agree on this; .5 is exact in binary).
RoundHalfEven(num, den) ==
    LET q == num \div den
        r == num % den
    IN  IF 2 * r < den THEN q
        ELSE IF 2 * r > den THEN q + 1
        ELSE IF q % 2 = 0 THEN q ELSE q + 1

\* A plausible slip: int(x) truncation instead of round.
RoundDown(num, den) == num \div den

\* round(x, 1) of x = num/den, in tenths.  Off a decimal tie this is the
\* nearest tenth.  On a decimal tie (x = k/10 + 1/20) the result depends on
\* the binary value of the float quotient and on the float type (round() of
\* a Python float rounds the exact binary value, numpy's float64 rounds
\* rint(x * 10) / 10), so both neighbours are possible outcomes.
RoundTenths(num, den) ==
    LET q == (10 * num) \div den
        r == (10 * num) % den
    IN  IF 2 * r < den THEN {q}
        ELSE IF 2 * r > den THEN {q + 1}
        ELSE {q, q + 1}

\* str() of a float with one decimal, from its value in tenths.
FloatText(tenths) == ToString(tenths \div 10) \o "." \o ToString(tenths % 10)

\* The same function with the minutes branch truncating instead of rounding.
make_text_truncating_minutes(n) ==
    IF n < 60 * 2 * Resolution
    THEN {ToString(RoundHalfEven(n, Resolution)) \o " seconds"}
    ELSE IF n < 3600 * 1 * Resolution
    THEN {ToString(RoundDown(n, 60 * Resolution)) \o " minutes"}
    ELSE IF n < 86400 * 1 * Resolution
    THEN {FloatText(t) \o " hours" : t \in RoundTenths(n, 3600 * Resolution)}
    ELSE IF n < 604800 * 2 * Resolution
    THEN {FloatText(t) \o " days" : t \in RoundTenths(n, 86400 * Resolution)}
    ELSE IF n < 2592000 * 1 * Resolution
    THEN {FloatText(t) \o " weeks" : t \in RoundTenths(n, 604800 * Resolution)}
    ELSE {FloatText(t) \o " months" : t \in RoundTenths(n, 2592000 * Resolution)}

\* The same function with the hour boundary taken inclusively (<= for <).
make_text_inclusive_hour(n) ==
    IF n < 60 * 2 * Resolution
    THEN {ToString(RoundHalfEven(n, Resolution)) \o " seconds"}
    ELSE IF n <= 3600 * 1 * Resolution
    THEN {ToString(RoundHalfEven(n, 60 * Resolution)) \o " minutes"}
    ELSE IF n < 86400 * 1 * Resolution
    THEN {FloatText(t) \o " hours" : t \in RoundTenths(n, 3600 * Resolution)}
    ELSE IF n < 604800 * 2 * Resolution
    THEN {FloatText(t) \o " days" : t \in RoundTenths(n, 86400 * Resolution)}
    ELSE IF n < 2592000 * 1 * Resolution
    THEN {FloatText(t) \o " weeks" : t \in RoundTenths(n, 604800 * Resolution)}
    ELSE {FloatText(t) \o " months" : t \in RoundTenths(n, 2592000 * Resolution)}

\* The set of strings the call can return for n / Resolution seconds (one
\* string except on a decimal tie of a one-decimal branch).
make_text_from_seconds(n) ==
    IF n < 60 * 2 * Resolution
    THEN {ToString(RoundHalfEven(n, Resolution)) \o " seconds"}
    ELSE IF n < 3600 * 1 * Resolution
    THEN {ToString(RoundHalfEven(n, 60 * Resolution)) \o " minutes"}
    ELSE IF n < 86400 * 1 * Resolution
    THEN {FloatText(t) \o " hours" : t \in RoundTenths(n, 3600 * Resolution)}
    ELSE IF n < 604800 * 2 * Resolution
    THEN {FloatText(t) \o " days" : t \in RoundTenths(n, 86400 * Resolution)}
    ELSE IF n < 2592000 * 1 * Resolution
    THEN {FloatText(t) \o " weeks" : t \in RoundTenths(n, 604800 * Resolution)}
    ELSE {FloatText(t) \o " months" : t \in RoundTenths(n, 2592000 * Resolution)}

\* The arguments tried: every grid point from 0 to just past one hour, the
\* grid points within Window seconds of the later boundaries, and those
\* around two decimal ties (1.05 hours and 1.05 days).
Around(b) == ((b - Window) * Resolution) .. ((b + Window) * Resolution)

TextInputs ==
    (0 .. ((3600 + Window) * Resolution))
        \cup Around(86400) \cup Around(1209600) \cup Around(2592000)
        \cup Around(3780) \cup Around(90720)

MakeText ==
    /\ text = NoText
    /\ text' \in make_text_from_seconds(seconds)
    /\ UNCHANGED <<seconds, textOther>>

(***************************************************************************)
(* Python values held in a table cell: a str, an int or a pandas           *)
(* Timestamp (an instant, here a whole number of days).                    *)
(***************************************************************************)
S(x) == [str |-> x]
I(x) == [int |-> x]
T(x) == [ts |-> x]

\* str(v), as the conversion applies it to an activity label.
Str(v) ==
    IF "str" \in DOMAIN v THEN v.str
    ELSE IF "int" \in DOMAIN v THEN ToString(v.int)
    ELSE "day " \o ToString(v.ts)

(***************************************************************************)
(* load_event_log_from_dataframe (lines 61-85).  A dataframe is a record   *)
(* of its column names, their dtypes and its rows (functions from column   *)
(* name to cell value).  The result of the repository's part is the frame  *)
(* it passes to pm4py.format_dataframe.                                    *)
(***************************************************************************)
\* Lines 77-82 with the end row taking the start timestamp (a copy-paste slip).
AppendEndFromStart(data, row, case_column, activity_column, timestamp_column, timestamp_end_column) ==
    LET d1 == [data EXCEPT ![case_column] = Append(@, row[case_column])]
        d2 == [d1 EXCEPT ![activity_column] =
                   Append(@, S(Str(row[activity_column]) \o "_start"))]
        d3 == [d2 EXCEPT ![timestamp_column] = Append(@, row[timestamp_column])]
        d4 == [d3 EXCEPT ![case_column] = Append(@, row[case_column])]
        d5 == [d4 EXCEPT ![activity_column] =
                   Append(@, S(Str(row[activity_column]) \o "_end"))]
    IN  [d5 EXCEPT ![timestamp_column] = Append(@, row[timestamp_column])]

\* Lines 77-82: the six appends of one iteration of the loop.
AppendStartEnd(data, row, case_column, activity_column, timestamp_column, timestamp_end_column) ==
    LET d1 == [data EXCEPT ![case_column] = Append(@, row[case_column])]
        d2 == [d1 EXCEPT ![activity_column] =
                   Append(@, S(Str(row[activity_column]) \o "_start"))]
        d3 == [d2 EXCEPT ![timestamp_column] = Append(@, row[timestamp_column])]
        d4 == [d3 EXCEPT ![case_column] = Append(@, row[case_column])]
        d5 == [d4 EXCEPT ![activity_column] =
                   Append(@, S(Str(row[activity_column]) \o "_end"))]
    IN  [d5 EXCEPT ![timestamp_column] = Append(@, row[timestamp_end_column])]

\* Line 75: the dict of empty lists, keyed by the three column names.
EmptyData(case_column, activity_column, timestamp_column) ==
    [c \in {case_column, activity_column, timestamp_column} |-> <<>>]

\* Line 83, pd.DataFrame(new_data): row i holds the i-th entry of each list
\* (the lists of a dict of distinct keys filled by the loop are equally long).
DataFrameOf(data, case_column) ==
    [i \in 1 .. Len(data[case_column]) |-> [c \in DOMAIN data |-> data[c][i]]]

\* Lines 76-82: the loop over all rows.
RECURSIVE SplitRows(_, _, _, _, _, _)
SplitRows(data, rows, case_column, activity_column, timestamp_column, timestamp_end_column) ==
    IF rows = <<>> THEN data
    ELSE SplitRows(AppendStartEnd(data, Head(rows), case_column, activity_column,
                                  timestamp_column, timestamp_end_column),
                   Tail(rows), case_column, activity_column, timestamp_column,
                   timestamp_end_column)

\* The rows of the frame passed to pm4py.format_dataframe (lines 71-84).
HandedRows(df, case_column, activity_column, timestamp_column, timestamp_end_column) ==
    IF timestamp_end_column = None THEN df.rows
    ELSE DataFrameOf(SplitRows(EmptyData(case_column, activity_column,
                                         timestamp_column),
                               df.rows, case_column, activity_column,
                               timestamp_column, timestamp_end_column),
                     case_column)

\* The calls tried: tables of at most MaxRows rows over four columns, the
\* end-timestamp column given or not.
MaxRows == 2

LogColumns == <<"case_id", "activity", "timestamp_start", "timestamp_end">>

LogRows ==
    [case_id : {S("1"), S("2")},
     activity : {S("Coating"), I(7)},
     timestamp_start : {T(1), T(2)},
     timestamp_end : {T(2), T(3)}]

SeqsUpTo(set, n) == UNION {[1 .. k -> set] : k \in 0 .. n}

LogCalls ==
    [df : [columns : {LogColumns},
           dtype : {[c \in {"case_id", "activity", "timestamp_start",
                             "timestamp_end"} |->
                        IF c \in {"timestamp_start", "timestamp_end"}
                        THEN "datetime64[ns]" ELSE "object"]},
           rows : SeqsUpTo(LogRows, MaxRows)],
     case_column : {"case_id"},
     activity_column : {"activity"},
     timestamp_column : {"timestamp_start"},
     timestamp_end_column : {None, "timestamp_end"}]

\* Lines 71-72: without an end column the dataframe is passed on as it is.
LoadDirect ==
    /\ lpc = "call"
    /\ call.timestamp_end_column = None
    /\ handed' = call.df.rows
    /\ lpc' = "done"
    /\ UNCHANGED <<call, rows_left, new_data, logOther>>

\* Lines 73-76: with an end column, the empty lists and the start of the loop.
LoadBegin ==
    /\ lpc = "call"
    /\ call.timestamp_end_column # None
    /\ new_data' = EmptyData(call.case_column, call.activity_column,
                             call.timestamp_column)
    /\ rows_left' = call.df.rows
    /\ lpc' = "loop"
    /\ UNCHANGED <<call, handed, logOther>>

\* Lines 76-82: one iteration.
LoadRow ==
    /\ lpc = "loop"
    /\ rows_left # <<>>
    /\ new_data' = AppendStartEnd(new_data, Head(rows_left), call.case_column,
                                  call.activity_column, call.timestamp_column,
                                  call.timestamp_end_column)
    /\ rows_left' = Tail(rows_left)
    /\ UNCHANGED <<call, lpc, handed, logOther>>

\* Lines 83-84: the loop is over, the new frame is built and passed on.
LoadFrame ==
    /\ lpc = "loop"
    /\ rows_left = <<>>
    /\ handed' = DataFrameOf(new_data, call.case_column)
    /\ lpc' = "done"
    /\ UNCHANGED <<call, rows_left, new_data, logOther>>

(***************************************************************************)
(* The tables the page can load.  Timestamps are whole days counted from   *)
(* 30 September 2023 (1 is 01.10.2023).                                    *)
(***************************************************************************)
\* pd.DataFrame(dict of equally long lists): row i takes entry i of each list.
TableRows(columns, lists) ==
    [i \in 1 .. Len(lists[columns[1]]) |->
        [c \in {columns[k] : k \in 1 .. Len(columns)} |-> lists[c][i]]]

StrList(seq) == [i \in 1 .. Len(seq) |-> S(seq[i])]
DayList(seq) == [i \in 1 .. Len(seq) |-> T(seq[i])]

\* Lines 125-139: example data 1, purchase orders.
Example1 ==
    LET columns == <<"case_id", "activity", "timestamp">>
        lists ==
            [case_id |-> StrList(<<"1", "1", "1", "1", "1",
                                   "2", "2", "2", "2", "2",
                                   "3", "3", "3", "3", "3", "3",
                                   "4", "4", "4", "4", "4">>),
             activity |-> StrList(
                <<"Create purchase order", "Select vendor", "Send PO", "Receive goods", "Authorize invoice",
                  "Create purchase order", "Select vendor", "Send PO", "Receive goods", "Authorize invoice",
                  "Create purchase order", "Select vendor", "Send PO", "Receive goods", "Quality defect", "Authorize invoice",
                  "Create purchase order", "Select vendor", "Send PO", "Receive goods", "Authorize invoice">>),
             timestamp |-> DayList(<<1, 3, 4, 34, 39,
                                     4, 9, 12, 33, 42,
                                     18, 23, 23, 30, 34, 56,
                                     32, 39, 43, 62, 69>>)]
    IN  [columns |-> columns,
         dtype |-> [case_id |-> "object", activity |-> "object",
                    timestamp |-> "datetime64[ns]"],
         rows |-> TableRows(columns, lists)]

\* Lines 143-165: example data 2, tablet production.
Example2 ==
    LET columns == <<"case_id", "activity", "timestamp_start", "timestamp_end">>
        lists ==
            [case_id |-> StrList(<<"1", "1", "1",
                                   "2", "2", "2",
                                   "3", "3", "3",
                                   "4", "4", "4", "4",
                                   "5", "5", "5", "5">>),
             activity |-> StrList(<<"Granulation", "Tabletting", "Coating",
                                    "Granulation", "Tabletting", "Coating",
                                    "Granulation", "Tabletting", "Coating",
                                    "Granulation", "Tabletting", "Coating", "Sorting",
                                    "Granulation", "Tabletting", "Coating", "Sorting">>),
             timestamp_start |-> DayList(<<1, 14, 18,
                                           4, 12, 18,
                                           9, 19, 25,
                                           11, 20, 24, 30,
                                           18, 24, 31, 35>>),
             timestamp_end |-> DayList(<<10, 17, 22,
                                         8, 14, 24,
                                         10, 23, 30,
                                         17, 23, 29, 33,
                                         22, 27, 34, 39>>)]
    IN  [columns |-> columns,
         dtype |-> [case_id |-> "object", activity |-> "object",
                    timestamp_start |-> "datetime64[ns]",
                    timestamp_end |-> "datetime64[ns]"],
         rows |-> TableRows(columns, lists)]

\* The uploads tried (line 115): a workbook whose first sheet has no column
\* called case_id, activity or timestamp, a number column and a date column
\* typed as text; and one that cannot be read.
Orders ==
    LET columns == <<"order", "step", "booked", "day">>
    IN  [columns |-> columns,
         dtype |-> [order |-> "int64", step |-> "object",
                    booked |-> "datetime64[ns]", day |-> "object"],
         rows |-> <<[order |-> I(1), step |-> S("pick"), booked |-> T(1), day |-> S("Mon")],
                    [order |-> I(1), step |-> S("pack"), booked |-> T(2), day |-> S("Tue")],
                    [order |-> I(2), step |-> S("pick"), booked |-> T(2), day |-> S("Tue")]>>]

GoodUploads == {"orders.xlsx"}
BadUploads == {"locked.xlsx"}

\* The dataframe behind a name held in df.
Dataset(name) ==
    CASE name = "example 1" -> Example1
      [] name = "example 2" -> Example2
      [] name = "orders.xlsx" -> Orders

ColumnSet(d) == {d.columns[k] : k \in 1 .. Len(d.columns)}

(***************************************************************************)
(* The pm4py calls of the page, after the library's documentation.  An     *)
(* event log is held as the arguments it was built from (log, which is     *)
(* also the key st.cache_data caches it under); EventsOf is its content.   *)
(***************************************************************************)
NoLog ==
    [df |-> None, case_column |-> None, activity_column |-> None,
     timestamp_column |-> None, timestamp_end_column |-> None]

\* pm4py.format_dataframe of the frame handed over (lines 72, 84): case and
\* activity as strings, the timestamp as an instant.
EventsOf(log) ==
    LET rows == HandedRows(Dataset(log.df), log.case_column, log.activity_column,
                           log.timestamp_column, log.timestamp_end_column)
    IN  [i \in 1 .. Len(rows) |->
            [case |-> Str(rows[i][log.case_column]),
             activity |-> Str(rows[i][log.activity_column]),
             timestamp |-> rows[i][log.timestamp_column].ts]]

\* Event i comes before event j: by timestamp, then by position.
Before(ev, i, j) ==
    \/ ev[i].timestamp < ev[j].timestamp
    \/ ev[i].timestamp = ev[j].timestamp /\ i < j

CaseIds(ev) == {ev[i].case : i \in DOMAIN ev}
CaseEvents(ev, c) == {i \in DOMAIN ev : ev[i].case = c}

\* The activities of the events idx in their order.
TraceOf(ev, idx) ==
    [p \in 1 .. Cardinality(idx) |->
        ev[CHOOSE i \in idx :
              Cardinality({j \in idx : j # i /\ Before(ev, j, i)}) = p - 1].activity]

\* The variant of case c.
Variant(ev, c) == TraceOf(ev, CaseEvents(ev, c))

\* pm4py.get_variants (line 271): the variants with their numbers of cases.
get_variants(ev) ==
    LET vs == {Variant(ev, c) : c \in CaseIds(ev)}
    IN  [v \in vs |-> Cardinality({c \in CaseIds(ev) : Variant(ev, c) = v})]

\* pm4py.filter_variants(log, [variant]) (lines 301, 348).
filter_variants(ev, variant) ==
    LET Keep(e) == Variant(ev, e.case) = variant
    IN  SelectSeq(ev, Keep)

\* pm4py.discover_dfg (line 356): the pairs of activities of events that
\* follow one another directly in a case.
discover_dfg(ev) ==
    LET Follows(i, j) ==
            /\ ev[i].case = ev[j].case
            /\ Before(ev, i, j)
            /\ ~\E k \in CaseEvents(ev, ev[i].case) :
                    Before(ev, i, k) /\ Before(ev, k, j)
    IN  {<<ev[p[1]].activity, ev[p[2]].activity>> :
            p \in {q \in (DOMAIN ev) \X (DOMAIN ev) : Follows(q[1], q[2])}}

\* len(pm4py.get_all_case_durations(log)) (lines 268, 350): one per case.
NumCases(ev) == Cardinality(CaseIds(ev))

(***************************************************************************)
(* The page script.  Streamlit runs the whole script once per user         *)
(* interaction, one thread per browser session; every session of the       *)
(* server shares the working directory and so the scratch directory        *)
(* TEMPORARY_FILES_FOLDER_NAME (line 20).                                  *)
(***************************************************************************)
Sessions == {"A", "B"}

PerfPng == "performance_dfg.png"
DfgPng == "dfg.png"
\* What the scratch directory can hold: the two images, a file left there
\* by something else, and a subdirectory.
ScratchNames == {PerfPng, DfgPng, "leftover.png", "subdir"}
\* A file of the working directory, next to the scratch directory.
OutsideNames == {"page_process_mining_made_easy.py"}

Absent == [kind |-> "absent", mtime |-> 0, by |-> None]
File(t, by) == [kind |-> "file", mtime |-> t, by |-> by]
Dir(t) == [kind |-> "dir", mtime |-> t, by |-> None]

ProcFile == "Load from file"
ProcExample1 == "Load example data 1 - Purchase orders"
ProcExample2 == "Load example data 2 - Tablet production"
Procedures == {ProcFile, ProcExample1, ProcExample2}

PerformanceGraph == "Performance Graph"
FrequencyGraph == "Frequency Graph"

Untouched == "<untouched>"
AllVariants == [all |-> TRUE, variant |-> <<>>]
OneVariant(v) == [all |-> FALSE, variant |-> v]

\* The widget values of a session that has just connected: every widget at
\* its default (lines 111, 115, 195-218, 343, 386).
DefaultWidgets ==
    [proc |-> ProcFile, file |-> None,
     case |-> Untouched, activity |-> Untouched,
     start |-> Untouched, end |-> Untouched,
     variant |-> AllVariants,
     pills |-> {PerformanceGraph, FrequencyGraph}]

NoColumns ==
    [case_column |-> None, activity_column |-> None,
     timestamp_start_column |-> None, timestamp_end_column |-> None]

NoImage == None

\* The script's variables and what the page shows, before a run.
NewRun ==
    [pc |-> "new", now |-> 0, todo |-> <<>>,
     df |-> None, loads |-> 0, columns |-> NoColumns, warnings |-> {},
     log |-> NoLog, log_variants |-> <<>>, list_of_variants |-> <<>>,
     filtered |-> 0,
     shown |-> {}, perf_image |-> NoImage,
     dfg_image |-> NoImage, error |-> None]

\* Lines 35, 41: file_modified_time < cutoff, with cutoff = now - 3600.
ExpiredInclusive(file_modified_time, now) == file_modified_time <= now - 3600
ExpiredNever(file_modified_time, now) == FALSE
Expired(file_modified_time, now) == file_modified_time < now - 3600

\* The orders os.listdir can return the names present in.
Listings ==
    LET present == {n \in ScratchNames : scratch[n].kind # "absent"}
        k == Cardinality(present)
    IN  {l \in [1 .. k -> present] : \A i, j \in 1 .. k : l[i] = l[j] => i = j}

\* st.selectbox(label, options, index): the user's choice, or the option at
\* index (None for index=None) while the widget is untouched.
NoIndex == -1
Selectbox(options, index, value) ==
    IF value # Untouched THEN value
    ELSE IF index = NoIndex \/ Len(options) = 0 THEN None
    ELSE options[index + 1]

\* df.columns.get_loc(name), 0-based.
get_loc(columns, name) == (CHOOSE k \in 1 .. Len(columns) : columns[k] = name) - 1

\* Lines 191-193, 198-200, 205-209, 214-216.
index_case_column(d) ==
    IF "case_id" \in ColumnSet(d) THEN get_loc(d.columns, "case_id") ELSE 0
index_activity_column(d) ==
    IF "activity" \in ColumnSet(d) THEN get_loc(d.columns, "activity") ELSE 0
index_timestamp_start_column(d) ==
    IF "timestamp" \in ColumnSet(d) THEN get_loc(d.columns, "timestamp")
    ELSE IF "timestamp_start" \in ColumnSet(d)
    THEN get_loc(d.columns, "timestamp_start")
    ELSE 0
\* Lines 215-216 as if they were not commented out.
index_timestamp_end_preselected(d) ==
    IF "timestamp_end" \in ColumnSet(d)
    THEN get_loc(d.columns, "timestamp_end") ELSE NoIndex
index_timestamp_end_column(d) == NoIndex

\* Lines 195, 202, 211, 218: the four column selections.
ColumnChoice(d, w) ==
    [case_column |-> Selectbox(d.columns, index_case_column(d), w.case),
     activity_column |-> Selectbox(d.columns, index_activity_column(d), w.activity),
     timestamp_start_column |->
        Selectbox(d.columns, index_timestamp_start_column(d), w.start),
     timestamp_end_column |->
        Selectbox(d.columns, index_timestamp_end_column(d), w.end)]

\* Lines 223-254: the warnings shown for the selection c of the table d.
Warnings(d, c) ==
    (IF c.case_column = c.activity_column
     THEN {"Case and activity column should be different"} ELSE {})
    \cup (IF c.case_column = c.timestamp_start_column
          THEN {"Case and timestamp start column should be different"} ELSE {})
    \cup (IF c.case_column = c.timestamp_end_column
          THEN {"Case and timestamp end column should be different"} ELSE {})
    \cup (IF c.activity_column = c.timestamp_start_column
          THEN {"Activity and timestamp start column should be different"} ELSE {})
    \cup (IF c.activity_column = c.timestamp_end_column
          THEN {"Activity and timestamp end column should be different"} ELSE {})
    \cup (IF c.timestamp_start_column = c.timestamp_end_column
          THEN {"Timestamp start and timestamp end column should be different"}
          ELSE {})
    \cup (IF d.dtype[c.timestamp_start_column] # "datetime64[ns]"
          THEN {"Timestamp start column should be of type datetime"} ELSE {})
    \cup (IF c.timestamp_end_column # None
          THEN IF d.dtype[c.timestamp_end_column] # "datetime64[ns]"
               THEN {"Timestamp end column should be of type datetime"} ELSE {}
          ELSE {})

\* The same flag with the assignment of line 254 forgotten.
any_warning_without_end_type(d, c) ==
    \/ c.case_column = c.activity_column
    \/ c.case_column = c.timestamp_start_column
    \/ c.case_column = c.timestamp_end_column
    \/ c.activity_column = c.timestamp_start_column
    \/ c.activity_column = c.timestamp_end_column
    \/ c.timestamp_start_column = c.timestamp_end_column
    \/ d.dtype[c.timestamp_start_column] # "datetime64[ns]"

\* Lines 222-254: the flag any_warning after the eight checks.
any_warning(d, c) ==
    \/ c.case_column = c.activity_column
    \/ c.case_column = c.timestamp_start_column
    \/ c.case_column = c.timestamp_end_column
    \/ c.activity_column = c.timestamp_start_column
    \/ c.activity_column = c.timestamp_end_column
    \/ c.timestamp_start_column = c.timestamp_end_column
    \/ d.dtype[c.timestamp_start_column] # "datetime64[ns]"
    \/ /\ c.timestamp_end_column # None
       /\ d.dtype[c.timestamp_end_column] # "datetime64[ns]"

\* Lines 256-257: the event log, built unless a warning was raised.
LogFor(name, c) ==
    IF any_warning(Dataset(name), c) THEN NoLog
    ELSE [df |-> name, case_column |-> c.case_column,
          activity_column |-> c.activity_column,
          timestamp_column |-> c.timestamp_start_column,
          timestamp_end_column |-> c.timestamp_end_column]

\* Lines 113-165 with the except branch retrying the load once.
LoadDataRetrying(w) ==
    IF w.proc = ProcFile
    THEN IF w.file = None THEN [df |-> None, loads |-> 0, shown |-> {}]
         ELSE IF w.file \in BadUploads
         THEN [df |-> None, loads |-> 2, shown |-> {"error loading file"}]
         ELSE [df |-> w.file, loads |-> 1, shown |-> {"file loaded"}]
    ELSE IF w.proc = ProcExample1
    THEN [df |-> "example 1", loads |-> 0, shown |-> {}]
    ELSE [df |-> "example 2", loads |-> 0, shown |-> {"hint"}]

\* Lines 113-165: df, the number of calls of load_file_to_dataframe and the
\* messages shown, by the load procedure and the uploaded file.
LoadData(w) ==
    IF w.proc = ProcFile
    THEN IF w.file = None THEN [df |-> None, loads |-> 0, shown |-> {}]
         ELSE IF w.file \in BadUploads
         THEN [df |-> None, loads |-> 1, shown |-> {"error loading file"}]
         ELSE [df |-> w.file, loads |-> 1, shown |-> {"file loaded"}]
    ELSE IF w.proc = ProcExample1
    THEN [df |-> "example 1", loads |-> 0, shown |-> {}]
    ELSE [df |-> "example 2", loads |-> 0, shown |-> {"hint"}]

\* The same sort with reverse=True left out.
sorted_ascending(log_variants) ==
    LET values == {log_variants[k] : k \in DOMAIN log_variants}
    IN  [i \in 1 .. Cardinality(values) |->
            {OneVariant(k) : k \in {x \in DOMAIN log_variants :
                Cardinality({v \in values : v < log_variants[x]}) = i - 1}}]

\* Lines 272-273: the keys of log_variants sorted by value, the largest
\* first.  The sort is stable, so keys of equal value stay in the order the
\* library returned them in, which the script does not fix: the list is
\* held as the sequence of its runs of keys of equal value, each run a set.
\* The i-th run holds the keys with i - 1 larger values in the dictionary.
sorted_descending(log_variants) ==
    LET values == {log_variants[k] : k \in DOMAIN log_variants}
    IN  [i \in 1 .. Cardinality(values) |->
            {OneVariant(k) : k \in {x \in DOMAIN log_variants :
                Cardinality({v \in values : v > log_variants[x]}) = i - 1}}]

\* Lines 345-348: the log the visualizations are made of.
FilteredEvents(log, chosen_variant) ==
    IF chosen_variant.all THEN EventsOf(log)
    ELSE filter_variants(EventsOf(log), chosen_variant.variant)

\* The options of the variant selectbox (lines 342-343) for a log.
VariantOptions(log) ==
    IF log = NoLog THEN {}
    ELSE {AllVariants} \cup {OneVariant(v) : v \in DOMAIN get_variants(EventsOf(log))}

\* A selectbox keeps its value from run to run only while its options stay
\* the same: the variant selectbox is back at "All" once the log changes.
ResetVariant(w) == [w EXCEPT !.variant = AllVariants]

ResetColumns(w) ==
    [w EXCEPT !.case = Untouched, !.activity = Untouched,
              !.start = Untouched, !.end = Untouched]

\* The widget values after one user event on the page the last run r of the
\* session rendered under the values w: a plain rerun, or one widget changed.
OneChange(w, r) ==
    {w}
    \cup {ResetVariant(ResetColumns([w EXCEPT !.proc = p, !.file = None])) :
            p \in {q \in Procedures : "load procedure" \in r.shown}}
    \cup {ResetVariant(ResetColumns([w EXCEPT !.file = f])) :
            f \in {g \in GoodUploads \cup BadUploads \cup {None} :
                      "file uploader" \in r.shown}}
    \cup UNION {{ResetVariant([w EXCEPT !.case = c]),
                 ResetVariant([w EXCEPT !.activity = c]),
                 ResetVariant([w EXCEPT !.start = c]),
                 ResetVariant([w EXCEPT !.end = c])} :
                    c \in IF "column form" \in r.shown
                          THEN ColumnSet(Dataset(r.df)) \cup {Untouched} ELSE {}}
    \cup {[w EXCEPT !.variant = v] :
            v \in IF "visualization" \in r.shown THEN VariantOptions(r.log) ELSE {}}
    \cup {[w EXCEPT !.pills = p] :
            p \in IF "settings" \in r.shown
                  THEN SUBSET {PerformanceGraph, FrequencyGraph} ELSE {}}

\* The user events tried where several sessions or a running clock are in
\* play: connecting, rerunning, and choosing example data 1.
FewChanges(w, r) ==
    {w}
    \cup {ResetVariant(ResetColumns([w EXCEPT !.proc = p, !.file = None])) :
            p \in {q \in {ProcFile, ProcExample1} : "load procedure" \in r.shown}}

pageOther == <<seconds, text, call, lpc, rows_left, new_data, handed>>

\* A user event in session s: Streamlit runs the script from the top with
\* the new widget values (lines 17-22: the page set up, the scratch
\* directory there).
Interact(s, w) ==
    /\ run[s].pc \in {"new", "done", "raised"}
    /\ widgets' = [widgets EXCEPT ![s] = w]
    /\ run' = [run EXCEPT ![s] = [NewRun EXCEPT !.pc = "sweep"]]
    /\ UNCHANGED <<clock, scratch, outside, pageOther>>

InteractFreely(s) == \E w \in OneChange(widgets[s], run[s]) : Interact(s, w)
InteractLittle(s) == \E w \in FewChanges(widgets[s], run[s]) : Interact(s, w)

\* Lines 33-37: clear_tempfiles reads the time and lists the directory.
Sweep(s) ==
    /\ run[s].pc = "sweep"
    /\ \E listing \in Listings :
          run' = [run EXCEPT ![s].now = clock, ![s].todo = listing,
                             ![s].pc = "isfile"]
    /\ UNCHANGED <<clock, scratch, outside, widgets, pageOther>>

\* Lines 37-39: the next name of the listing and os.path.isfile of it; after
\* the last name clear_tempfiles returns (line 44).
IsFile(s) ==
    /\ run[s].pc = "isfile"
    /\ run' = IF run[s].todo = <<>>
              THEN [run EXCEPT ![s].pc = "load", ![s].now = 0]
              ELSE IF scratch[Head(run[s].todo)].kind = "file"
              THEN [run EXCEPT ![s].pc = "getmtime"]
              ELSE [run EXCEPT ![s].todo = Tail(@)]
    /\ UNCHANGED <<clock, scratch, outside, widgets, pageOther>>

\* Lines 40-41: os.path.getmtime, which raises FileNotFoundError when the
\* file is gone, and the comparison with the cutoff.
GetMTime(s) ==
    /\ run[s].pc = "getmtime"
    /\ LET file == scratch[Head(run[s].todo)]
       IN  run' = IF file.kind = "absent"
                  THEN [run EXCEPT ![s].pc = "raised",
                                   ![s].error = "FileNotFoundError in getmtime"]
                  ELSE IF Expired(file.mtime, run[s].now)
                  THEN [run EXCEPT ![s].pc = "remove"]
                  ELSE [run EXCEPT ![s].pc = "isfile", ![s].todo = Tail(@)]
    /\ UNCHANGED <<clock, scratch, outside, widgets, pageOther>>

\* Line 42: os.remove, which raises FileNotFoundError when the file is gone.
Remove(s) ==
    /\ run[s].pc = "remove"
    /\ LET name == Head(run[s].todo)
       IN  IF scratch[name].kind = "absent"
           THEN /\ run' = [run EXCEPT ![s].pc = "raised",
                                      ![s].error = "FileNotFoundError in remove"]
                /\ UNCHANGED scratch
           ELSE /\ scratch' = [scratch EXCEPT ![name] = Absent]
                /\ run' = [run EXCEPT ![s].pc = "isfile", ![s].todo = Tail(@)]
    /\ UNCHANGED <<clock, outside, widgets, pageOther>>

\* Lines 105-165: the load procedure and the dataframe.
Load(s) ==
    /\ run[s].pc = "load"
    /\ LET w == widgets[s]
           got == LoadData(w)
       IN  run' = [run EXCEPT
                      ![s].pc = "columns",
                      ![s].df = got.df,
                      ![s].loads = got.loads,
                      ![s].shown = {"load procedure"}
                          \cup (IF w.proc = ProcFile THEN {"file uploader"} ELSE {})
                          \cup got.shown]
    /\ UNCHANGED <<clock, scratch, outside, widgets, pageOther>>

\* Lines 171-257: the data table, the column form, the warnings, the log.
Columns(s) ==
    /\ run[s].pc = "columns"
    /\ run' = IF run[s].df = None
              THEN [run EXCEPT ![s].pc = "statistics"]
              ELSE LET d == Dataset(run[s].df)
                       c == ColumnChoice(d, widgets[s])
                   IN  [run EXCEPT
                           ![s].pc = "statistics",
                           ![s].columns = c,
                           ![s].warnings = Warnings(d, c),
                           ![s].log = LogFor(run[s].df, c),
                           ![s].shown = @ \cup {"data table", "column form"}]
    /\ UNCHANGED <<clock, scratch, outside, widgets, pageOther>>

\* Lines 260-271: the statistics section opens with the variants of the
\* log and their numbers of cases.
Statistics(s) ==
    /\ run[s].pc = "statistics"
    /\ run' = IF run[s].log = NoLog
              THEN [run EXCEPT ![s].pc = "visualization"]
              ELSE [run EXCEPT
                       ![s].pc = "sort variants",
                       ![s].log_variants = get_variants(EventsOf(run[s].log))]
    /\ UNCHANGED <<clock, scratch, outside, widgets, pageOther>>

\* Lines 272-336: the variants sorted by their numbers of cases, and the
\* tables of the statistics section.
SortVariants(s) ==
    /\ run[s].pc = "sort variants"
    /\ run' = [run EXCEPT
                 ![s].pc = "visualization",
                 ![s].list_of_variants = sorted_descending(run[s].log_variants),
                 ![s].shown = @ \cup {"statistics"}]
    /\ UNCHANGED <<clock, scratch, outside, widgets, pageOther>>

\* The same step with the frequency graph saved whatever is selected.
AfterPerformanceUnguarded(w) == "save dfg"

\* After the performance graph: the frequency graph if chosen (line 409).
AfterPerformance(w) ==
    IF FrequencyGraph \in w.pills THEN "save dfg" ELSE "finish"

\* Lines 338-401, 413-414: the variant filter, the two graphs, the table of
\* edges and the settings, or the "No data" message.
Visualization(s) ==
    /\ run[s].pc = "visualization"
    /\ run' = IF run[s].log = NoLog
              THEN [run EXCEPT ![s].pc = "finish"]
              ELSE LET w == widgets[s]
                       filtered_log == FilteredEvents(run[s].log, w.variant)
                       dfg == discover_dfg(filtered_log)
                   IN  IF dfg # {}
                       THEN [run EXCEPT
                               ![s].list_of_variants = <<{AllVariants}>> \o @,
                               ![s].filtered = NumCases(filtered_log),
                               ![s].shown = @ \cup {"visualization", "edge table",
                                                    "settings"},
                               ![s].pc = IF PerformanceGraph \in w.pills
                                         THEN "save performance"
                                         ELSE AfterPerformance(w)]
                       ELSE [run EXCEPT
                               ![s].list_of_variants = <<{AllVariants}>> \o @,
                               ![s].filtered = NumCases(filtered_log),
                               ![s].shown = @ \cup {"visualization", "no data"},
                               ![s].pc = "finish"]
    /\ UNCHANGED <<clock, scratch, outside, widgets, pageOther>>

\* Line 405: save_vis_performance_dfg writes performance_dfg.png.
SavePerformance(s) ==
    /\ run[s].pc = "save performance"
    /\ scratch' = [scratch EXCEPT ![PerfPng] = File(clock, s)]
    /\ run' = [run EXCEPT ![s].pc = "show performance"]
    /\ UNCHANGED <<clock, outside, widgets, pageOther>>

\* Line 407: st.image reads the file; it raises when the file is missing.
ShowPerformance(s) ==
    /\ run[s].pc = "show performance"
    /\ LET file == scratch[PerfPng]
       IN  run' = IF file.kind = "absent"
                  THEN [run EXCEPT ![s].pc = "raised",
                                   ![s].error = "performance_dfg.png is missing"]
                  ELSE [run EXCEPT
                           ![s].perf_image = file.by,
                           ![s].pc = AfterPerformance(widgets[s])]
    /\ UNCHANGED <<clock, scratch, outside, widgets, pageOther>>

\* Line 411: save_vis_dfg writes dfg.png.
SaveDfg(s) ==
    /\ run[s].pc = "save dfg"
    /\ scratch' = [scratch EXCEPT ![DfgPng] = File(clock, s)]
    /\ run' = [run EXCEPT ![s].pc = "show dfg"]
    /\ UNCHANGED <<clock, outside, widgets, pageOther>>

\* Line 412: st.image reads the file; it raises when the file is missing.
ShowDfg(s) ==
    /\ run[s].pc = "show dfg"
    /\ LET file == scratch[DfgPng]
       IN  run' = IF file.kind = "absent"
                  THEN [run EXCEPT ![s].pc = "raised",
                                   ![s].error = "dfg.png is missing"]
                  ELSE [run EXCEPT
                           ![s].dfg_image = file.by,
                           ![s].pc = "finish"]
    /\ UNCHANGED <<clock, scratch, outside, widgets, pageOther>>

\* Lines 416-419: the divider and the caption end the script.
Finish(s) ==
    /\ run[s].pc = "finish"
    /\ run' = [run EXCEPT ![s].pc = "done"]
    /\ UNCHANGED <<clock, scratch, outside, widgets, pageOther>>

\* Time passes: a minute, or a minute less than an hour, at most MaxTicks
\* times.
MaxTicks == 3
TicksTaken == ((clock - 3660) \div 3540) + (((clock - 3660) % 3540) \div 60)

Tick ==
    /\ TicksTaken < MaxTicks
    /\ \E d \in {60, 3540} : clock' = clock + d
    /\ UNCHANGED <<scratch, outside, widgets, run, pageOther>>

\* Time passes by 61 minutes at a time, at most MaxHours times.
MaxHours == 1

TickHour ==
    /\ (clock - 3660) \div 3660 < MaxHours
    /\ clock' = clock + 3660
    /\ UNCHANGED <<scratch, outside, widgets, run, pageOther>>

(***************************************************************************)
(* The specifications.                                                     *)
(***************************************************************************)
\* One call of make_text_from_seconds for each argument tried.
InitText ==
    /\ seconds \in TextInputs
    /\ text = NoText
    /\ call = None
    /\ lpc = "off"
    /\ rows_left = <<>>
    /\ new_data = <<>>
    /\ handed = <<>>
    /\ clock = 0
    /\ scratch = [n \in ScratchNames |-> Absent]
    /\ outside = [n \in OutsideNames |-> Absent]
    /\ widgets = [s \in Sessions |-> DefaultWidgets]
    /\ run = [s \in Sessions |-> NewRun]

NextText == MakeText

SpecText == InitText /\ [][NextText]_vars

\* One call of load_event_log_from_dataframe for each table tried.
InitLog ==
    /\ seconds = 0
    /\ text = NoText
    /\ call \in LogCalls
    /\ lpc = "call"
    /\ rows_left = <<>>
    /\ new_data = <<>>
    /\ handed = <<>>
    /\ clock = 0
    /\ scratch = [n \in ScratchNames |-> Absent]
    /\ outside = [n \in OutsideNames |-> Absent]
    /\ widgets = [s \in Sessions |-> DefaultWidgets]
    /\ run = [s \in Sessions |-> NewRun]

NextLog == LoadDirect \/ LoadBegin \/ LoadRow \/ LoadFrame

SpecLog == InitLog /\ [][NextLog]_vars

\* The steps of the script in session s, from the sweep to the caption.
Script(s) ==
    \/ Sweep(s)
    \/ IsFile(s)
    \/ GetMTime(s)
    \/ Remove(s)
    \/ Load(s)
    \/ Columns(s)
    \/ Statistics(s)
    \/ SortVariants(s)
    \/ Visualization(s)
    \/ SavePerformance(s)
    \/ ShowPerformance(s)
    \/ SaveDfg(s)
    \/ ShowDfg(s)
    \/ Finish(s)

\* One session, every widget in play, the clock at rest: the page's logic.
\* The scratch directory starts empty or with a file older than an hour.
InitPage ==
    /\ seconds = 0
    /\ text = NoText
    /\ call = None
    /\ lpc = "off"
    /\ rows_left = <<>>
    /\ new_data = <<>>
    /\ handed = <<>>
    /\ clock = 3600 + 60
    /\ scratch \in {[n \in ScratchNames |->
                        IF n = "leftover.png" THEN e ELSE Absent] :
                    e \in {Absent, File(0, None)}}
    /\ outside = [n \in OutsideNames |-> File(0, None)]
    /\ widgets = [s \in Sessions |-> DefaultWidgets]
    /\ run = [s \in Sessions |-> NewRun]

NextPage == \E s \in {"A"} : InteractFreely(s) \/ Script(s)

SpecPage == InitPage /\ [][NextPage]_vars

\* One session, few widgets in play, the clock running: the sweep on its
\* own.  The scratch directory starts with any of: an image of an earlier
\* server run, a left-over file of any age, a subdirectory.
StartScratch ==
    {[n \in ScratchNames |->
        CASE n = PerfPng -> p
          [] n = DfgPng -> Absent
          [] n = "leftover.png" -> l
          [] n = "subdir" -> d] :
     p \in {Absent, File(0, None)},
     l \in {Absent, File(0, None), File(60, None),
            File(3600 + 60, None)},
     d \in {Absent, Dir(0)}}

InitSweep ==
    /\ seconds = 0
    /\ text = NoText
    /\ call = None
    /\ lpc = "off"
    /\ rows_left = <<>>
    /\ new_data = <<>>
    /\ handed = <<>>
    /\ clock = 3600 + 60
    /\ scratch \in StartScratch
    /\ outside = [n \in OutsideNames |-> File(0, None)]
    /\ widgets = [s \in Sessions |-> DefaultWidgets]
    /\ run = [s \in Sessions |-> NewRun]

NextSweep == Tick \/ \E s \in {"A"} : InteractLittle(s) \/ Script(s)

SpecSweep == InitSweep /\ [][NextSweep]_vars

\* Two sessions, few widgets in play, the clock running.  A script that has
\* started runs on (weak fairness of its steps); nothing makes a user
\* interact, and nothing else starts a run.
InitShared ==
    /\ seconds = 0
    /\ text = NoText
    /\ call = None
    /\ lpc = "off"
    /\ rows_left = <<>>
    /\ new_data = <<>>
    /\ handed = <<>>
    /\ clock = 3600 + 60
    /\ scratch \in {[n \in ScratchNames |->
                        IF n = PerfPng THEN e ELSE Absent] :
                    e \in {Absent, File(0, None)}}
    /\ outside = [n \in OutsideNames |-> File(0, None)]
    /\ widgets = [s \in Sessions |-> DefaultWidgets]
    /\ run = [s \in Sessions |-> NewRun]

NextShared == TickHour \/ \E s \in Sessions : InteractLittle(s) \/ Script(s)

SpecShared ==
    /\ InitShared
    /\ [][NextShared]_vars
    /\ \A s \in Sessions : WF_vars(Script(s))

\* One session analyses example data while a second one only opens the
\* page and reruns it; both sweep the same scratch directory, and every
\* script that has started runs on.
Rerun(s) == Interact(s, widgets[s])

InitVisits ==
    /\ seconds = 0
    /\ text = NoText
    /\ call = None
    /\ lpc = "off"
    /\ rows_left = <<>>
    /\ new_data = <<>>
    /\ handed = <<>>
    /\ clock = 3600 + 60
    /\ outside = [n \in OutsideNames |-> File(0, None)]
    /\ scratch \in {[n \in ScratchNames |-> Absent],
                    [[n \in ScratchNames |-> Absent] EXCEPT ![PerfPng] = File(0, None)]}
    /\ widgets = [s \in Sessions |-> DefaultWidgets]
    /\ run = [s \in Sessions |-> NewRun]

NextVisits ==
    TickHour \/ InteractLittle("A") \/ Rerun("B") \/ \E s \in Sessions : Script(s)

SpecVisits ==
    /\ InitVisits
    /\ [][NextVisits]_vars
    /\ \A s \in Sessions : WF_vars(Script(s))

\* t ends with the suffix suf.
EndsWith(t, suf) ==
    /\ Len(t) >= Len(suf)
    /\ SubSeq(t, Len(t) - Len(suf) + 1, Len(t)) = suf

\* The value of the argument lies in [lo, hi) seconds.
SecondsIn(lo, hi) == lo * Resolution <= seconds /\ seconds < hi * Resolution

Units == {" seconds", " minutes", " hours", " days", " weeks", " months"}

\* The unit the claim assigns to the argument.
ClaimedUnit ==
    IF SecondsIn(0, 120) THEN " seconds"
    ELSE IF SecondsIn(120, 3600) THEN " minutes"
    ELSE IF SecondsIn(3600, 86400) THEN " hours"
    ELSE IF SecondsIn(86400, 1209600) THEN " days"
    ELSE IF SecondsIn(1209600, 2592000) THEN " weeks"
    ELSE " months"

\* C1: for every non-negative argument the returned string carries exactly
\* one unit, the one fixed by the boundaries 120 s, 3600 s, 86400 s,
\* 1209600 s and 2592000 s (each boundary belongs to the larger unit), and
\* 119 gives "119 seconds", 120 gives "2 minutes", 3600 gives "1.0 hours".
C1_UnitByBoundaries ==
    text # NoText =>
        /\ \A u \in Units : EndsWith(text, u) <=> u = ClaimedUnit
        /\ seconds = 119 * Resolution => text = "119 seconds"
        /\ seconds = 120 * Resolution => text = "2 minutes"
        /\ seconds = 3600 * Resolution => text = "1.0 hours"

\* The call on exactly one hour has returned "1.0 hours".
C1_Witness ==
    /\ seconds = 3600 * Resolution
    /\ text = "1.0 hours"

\* C2 as claimed: 3599 s is reported as "59 minutes", and no argument in
\* [120, 3600) is reported as 60 minutes.
C2_Original ==
    (text # NoText /\ SecondsIn(120, 3600)) =>
        /\ seconds = 3599 * Resolution => text = "59 minutes"
        /\ text # "60 minutes"

\* C2 as amended: the minutes figure is seconds / 60 rounded to the nearest
\* integer (a tie to the even one), so for an argument in [120, 3600) it is
\* one of 2..60, it is 60 exactly for the arguments from 3570 s on, and 3599
\* is reported as "60 minutes".
C2_MinutesRounded ==
    (text # NoText /\ SecondsIn(120, 3600)) =>
        /\ text \in {ToString(m) \o " minutes" : m \in 2 .. 60}
        /\ text = "60 minutes" <=> seconds >= 3570 * Resolution
        /\ seconds = 3599 * Resolution => text = "60 minutes"

\* The call on 3599 s has returned "60 minutes".
C2_Witness ==
    /\ seconds = 3599 * Resolution
    /\ text = "60 minutes"

\* The rows of the call's input table.
InRows == call.df.rows

\* C6: without an end-timestamp column the library is handed the input rows
\* themselves, one per input row; with one it is handed exactly two rows per
\* input row, in input order: the row's case, its label suffixed "_start"
\* and its start timestamp, immediately followed by the row's case, its label
\* suffixed "_end" and its end timestamp.
C6_RowsHanded ==
    lpc = "done" =>
        IF call.timestamp_end_column = None
        THEN handed = InRows
        ELSE /\ Len(handed) = 2 * Len(InRows)
             /\ \A i \in 1 .. Len(InRows) :
                    /\ handed[2 * i - 1] =
                           [case_id |-> InRows[i].case_id,
                            activity |-> S(Str(InRows[i].activity) \o "_start"),
                            timestamp_start |-> InRows[i].timestamp_start]
                    /\ handed[2 * i] =
                           [case_id |-> InRows[i].case_id,
                            activity |-> S(Str(InRows[i].activity) \o "_end"),
                            timestamp_start |-> InRows[i].timestamp_end]

C6_Witness ==
    /\ lpc = "done"
    /\ call.timestamp_end_column = "timestamp_end"
    /\ Len(InRows) = 2
    /\ Len(handed) = 4
    /\ InRows[1].timestamp_end # InRows[1].timestamp_start

\* The session s is inside clear_tempfiles, and its loop has ended.
InSweep(s) == run[s].pc \in {"isfile", "getmtime", "remove"}
EndOfSweep(s) == run[s].pc = "isfile" /\ run[s].todo = <<>>

\* A step of a sweep by session s takes the entry n away.
TakenAway(n) == scratch[n].kind # "absent" /\ scratch'[n].kind = "absent"

\* A step changes no entry of the scratch directory while a sweep moves,
\* except by taking away a regular file modified strictly earlier than the
\* sweep's time minus 3600 s; subdirectories and outside files stay.
SweepStep ==
    /\ \A s \in Sessions : (InSweep(s) /\ run'[s] # run[s]) =>
            \A n \in ScratchNames : scratch'[n] # scratch[n] =>
                /\ TakenAway(n)
                /\ scratch[n].kind = "file"
                /\ scratch[n].mtime < run[s].now - 3600
    /\ \A d \in ScratchNames : scratch[d].kind = "dir" => scratch'[d] = scratch[d]
    /\ outside' = outside

\* When the loop of a sweep has ended, no regular file of the scratch
\* directory is older than one hour at the sweep's time.
SweepDone ==
    \A s \in Sessions : EndOfSweep(s) =>
        \A n \in ScratchNames :
            scratch[n].kind = "file" => scratch[n].mtime >= run[s].now - 3600

\* C3, with a sweep running on its own: (1) when the loop of a sweep has
\* ended, no regular file of the scratch directory has a modification time
\* strictly earlier than the sweep's time minus 3600 s; (2) a step of a
\* sweep changes no entry of the scratch directory except by taking away a
\* regular file whose modification time is strictly earlier than that
\* (so a file modified exactly 3600 s or 59 minutes before stays);
\* subdirectories stay, and no step changes a file outside the directory.
C3_SweepRemovesExactlyExpired == []SweepDone /\ [][SweepStep]_vars

\* A sweep at time t has examined and kept a file modified at t - 3600 and
\* is about to remove a file modified at t - 3660 (61 minutes before).
C3_Witness ==
    \E s \in Sessions :
        /\ run[s].pc = "remove"
        /\ run[s].todo = <<PerfPng>>
        /\ scratch[PerfPng].mtime = run[s].now - 3660
        /\ scratch["leftover.png"].kind = "file"
        /\ scratch["leftover.png"].mtime = run[s].now - 3600
        /\ scratch["subdir"].kind = "dir"

\* The script of session s is past the column form (line 257).
PastColumns(s) ==
    run[s].pc \in {"statistics", "sort variants", "visualization", "save performance",
                   "show performance", "save dfg", "show dfg", "finish", "done"}

\* Session s computed nothing of the analysis, and shows nothing of it.
NoAnalysis(s) ==
    /\ run[s].log = NoLog
    /\ run[s].shown \cap {"statistics", "visualization", "edge table",
                          "settings", "no data"} = {}
    /\ run[s].perf_image = NoImage
    /\ run[s].dfg_image = NoImage
    /\ run[s].pc \notin {"save performance", "show performance", "save dfg",
                         "show dfg"}

\* C4: whenever a run shows a validation warning, it builds no event log
\* and neither computes nor shows the statistics or the visualizations.
C4_WarningStopsAnalysis ==
    \A s \in Sessions : run[s].warnings # {} => NoAnalysis(s)

\* A run that ended with only the warning about the end column's type.
C4_Witness ==
    \E s \in Sessions :
        /\ run[s].pc = "done"
        /\ run[s].warnings = {"Timestamp end column should be of type datetime"}
        /\ NoAnalysis(s)

\* The upload of session s is one that cannot be read, and the script has
\* run its load section (lines 113-121).
LoadFailed(s) ==
    /\ widgets[s].proc = ProcFile
    /\ widgets[s].file \in BadUploads
    /\ run[s].pc \notin {"new", "sweep", "isfile", "getmtime", "remove", "load"}

\* C5: when the load of the uploaded file raises, the run shows the error
\* message, leaves df unset, shows no column form, builds no log, shows no
\* statistics or visualization, has called the load once, does not end in
\* an exception, and goes on, step by step, to the end of the script.
C5_LoadFailureSkipsAnalysis ==
    \A s \in Sessions : LoadFailed(s) =>
        /\ "error loading file" \in run[s].shown
        /\ run[s].df = None
        /\ run[s].loads = 1
        /\ run[s].shown \cap {"file loaded", "data table", "column form"} = {}
        /\ run[s].warnings = {}
        /\ NoAnalysis(s)
        /\ run[s].pc \in {"columns", "statistics", "visualization", "finish", "done"}
        /\ run[s].pc # "done" => ENABLED Script(s)

\* A run on an unreadable upload has reached the end of the script, with
\* only the load section and the error on the page.
C5_Witness ==
    \E s \in Sessions :
        /\ LoadFailed(s)
        /\ run[s].pc = "done"
        /\ run[s].shown = {"load procedure", "file uploader", "error loading file"}

\* The selection the claim lets through, for the table d.
ClaimedValid(d, c) ==
    /\ c.case_column # c.activity_column
    /\ c.case_column # c.timestamp_start_column
    /\ c.activity_column # c.timestamp_start_column
    /\ d.dtype[c.timestamp_start_column] = "datetime64[ns]"
    /\ \/ c.timestamp_end_column = None
       \/ /\ c.timestamp_end_column \in ColumnSet(d)
          /\ d.dtype[c.timestamp_end_column] = "datetime64[ns]"
          /\ c.timestamp_end_column \notin
                {c.case_column, c.activity_column, c.timestamp_start_column}

EndCollisions ==
    {"Case and timestamp end column should be different",
     "Activity and timestamp end column should be different",
     "Timestamp start and timestamp end column should be different"}

\* C10: with a dataset loaded, the log is built exactly when case, activity
\* and start timestamp are pairwise distinct columns, the start column is
\* datetime-typed and the end selection is empty or a datetime-typed column
\* distinct from the other three; an empty end selection raises no
\* collision warning; and the untouched end selectbox is empty.
C10_LogBuiltExactlyWhenValid ==
    \A s \in Sessions : (PastColumns(s) /\ run[s].df # None) =>
        /\ run[s].log # NoLog <=> ClaimedValid(Dataset(run[s].df), run[s].columns)
        /\ run[s].columns.timestamp_end_column = None =>
                run[s].warnings \cap EndCollisions = {}
        /\ widgets[s].end = Untouched =>
                run[s].columns.timestamp_end_column = None

\* Example data 2 with the end column chosen: the log is built.
C10_Witness ==
    \E s \in Sessions :
        /\ run[s].pc = "done"
        /\ run[s].df = "example 2"
        /\ run[s].columns.timestamp_end_column = "timestamp_end"
        /\ run[s].log # NoLog
        /\ run[s].warnings = {}

\* The entry n is a regular file modified more than one hour ago.
OldFile(n) == scratch[n].kind = "file" /\ scratch[n].mtime < clock - 3600

\* C7 as stated: no file of the scratch directory stays in it forever once
\* it is older than one hour (it is removed, or replaced by a new image).
C7_Original ==
    \A n \in ScratchNames : []<>~OldFile(n)

\* An entry leaves the scratch directory only in the remove step of the
\* sweep that opens an interaction.
RemovedBySweepOnly ==
    \A n \in ScratchNames : TakenAway(n) =>
        \E s \in Sessions :
            /\ run[s].pc = "remove"
            /\ run'[s] # run[s]
            /\ Head(run[s].todo) = n

\* Some session is at the start of an interaction, about to sweep.
InteractionStarts == \E s \in Sessions : run[s].pc = "sweep"

\* C7, amended: the directory is swept at the start of each interaction and
\* at no other time.  An entry is removed only by such a sweep; while no
\* session runs its script the directory does not change; and if
\* interactions keep starting, no file stays in it forever once it is older
\* than one hour.
C7_SweptOnInteraction ==
    /\ [][RemovedBySweepOnly]_vars
    /\ [][(\A s \in Sessions : run[s].pc \in {"new", "done", "raised"})
            => scratch' = scratch]_vars
    /\ ([]<>InteractionStarts) => \A n \in ScratchNames : []<>~OldFile(n)

\* The sweep of an interaction is about to remove an image that a session
\* generated more than one hour ago.
C7_Witness ==
    \E s \in Sessions :
        /\ run[s].pc = "remove"
        /\ Head(run[s].todo) = PerfPng
        /\ scratch[PerfPng].by \in Sessions
        /\ OldFile(PerfPng)

\* C8 as stated: no sweep ends in an exception, also when the sweeps of two
\* sessions interleave over the same directory.
C8_SweepNeverRaises ==
    \A s \in Sessions :
        run[s].error \notin {"FileNotFoundError in getmtime",
                             "FileNotFoundError in remove"}

\* C9 as stated: when a session is about to read an image for display, the
\* file is there and is the one this session wrote, and every image a
\* session displays is the one it generated.
C9_DisplaysOwnImage ==
    \A s \in Sessions :
        /\ run[s].pc = "show performance" =>
                scratch[PerfPng].kind = "file" /\ scratch[PerfPng].by = s
        /\ run[s].pc = "show dfg" =>
                scratch[DfgPng].kind = "file" /\ scratch[DfgPng].by = s
        /\ run[s].perf_image \in {NoImage, s}
        /\ run[s].dfg_image \in {NoImage, s}
        /\ run[s].error \notin {"performance_dfg.png is missing",
                                 "dfg.png is missing"}

\* The script of session s is past line 357, with a log built.
PastGuards(s) ==
    /\ run[s].log # NoLog
    /\ run[s].pc \in {"save performance", "show performance", "save dfg",
                      "show dfg", "finish", "done"}

\* The directly-follows graph of the filtered log of session s (line 356).
DfgOf(s) == discover_dfg(FilteredEvents(run[s].log, widgets[s].variant))

\* Session s may write and show the image of graph g: the filtered log has
\* an edge and g is among the chosen visualizations.
MayDraw(s, g) ==
    /\ run[s].log # NoLog
    /\ DfgOf(s) # {}
    /\ g \in widgets[s].pills

\* What holds in every state of a run, for C11.
ImagesGuarded ==
    \A s \in Sessions :
        /\ "no data" \in run[s].shown <=> (PastGuards(s) /\ DfgOf(s) = {})
        /\ "no data" \in run[s].shown =>
                /\ run[s].pc \in {"finish", "done"}
                /\ run[s].perf_image = NoImage
                /\ run[s].dfg_image = NoImage
                /\ "settings" \notin run[s].shown
        /\ run[s].pc \in {"save performance", "show performance"} =>
                MayDraw(s, PerformanceGraph)
        /\ run[s].pc \in {"save dfg", "show dfg"} => MayDraw(s, FrequencyGraph)
        /\ run[s].perf_image # NoImage =>
                MayDraw(s, PerformanceGraph) /\ scratch[PerfPng].kind = "file"
        /\ run[s].dfg_image # NoImage =>
                MayDraw(s, FrequencyGraph) /\ scratch[DfgPng].kind = "file"
        /\ (run[s].pc = "done" /\ MayDraw(s, PerformanceGraph)) =>
                run[s].perf_image # NoImage
        /\ (run[s].pc = "done" /\ MayDraw(s, FrequencyGraph)) =>
                run[s].dfg_image # NoImage

\* What holds of every step, for C11: an image file appears or changes only
\* in the save step of its graph, an image is displayed only in the show
\* step of its graph, and that step is entered only by the save step, which
\* has then just written the file.
ImageSteps ==
    \A s \in Sessions :
        /\ scratch'[PerfPng] # scratch[PerfPng] =>
                \E t \in Sessions : run[t].pc = "save performance" /\ run'[t] # run[t]
        /\ scratch'[DfgPng] # scratch[DfgPng] =>
                \E t \in Sessions : run[t].pc = "save dfg" /\ run'[t] # run[t]
        /\ run'[s].perf_image \notin {NoImage, run[s].perf_image} =>
                run[s].pc = "show performance"
        /\ run'[s].dfg_image \notin {NoImage, run[s].dfg_image} =>
                run[s].pc = "show dfg"
        /\ (run'[s].pc = "show performance" /\ run[s].pc # "show performance") =>
                run[s].pc = "save performance" /\ scratch'[PerfPng] = File(clock, s)
        /\ (run'[s].pc = "show dfg" /\ run[s].pc # "show dfg") =>
                run[s].pc = "save dfg" /\ scratch'[DfgPng] = File(clock, s)

\* C11: when the directly-follows graph of the filtered log has no edge the
\* run shows the "No data" message, offers no settings and writes and shows
\* no image; when it has an edge, performance_dfg.png is written and shown
\* only if "Performance Graph" is selected and dfg.png only if "Frequency
\* Graph" is selected (and then they are), each written in the step before
\* the one that displays it.
C11_ImagesBehindGuards == []ImagesGuarded /\ [][ImageSteps]_vars

\* A run whose filtered log has no edge (one variant of a single event is
\* chosen) has ended with the message and without an image, both graphs
\* being selected.
C11_Witness ==
    \E s \in Sessions :
        /\ run[s].pc = "done"
        /\ "no data" \in run[s].shown
        /\ run[s].log # NoLog
        /\ DfgOf(s) = {}
        /\ widgets[s].pills = {PerformanceGraph, FrequencyGraph}
        /\ run[s].perf_image = NoImage
        /\ run[s].dfg_image = NoImage

\* The script of session s has run the variant filter (lines 342-350).
PastFilter(s) ==
    /\ run[s].log # NoLog
    /\ "visualization" \in run[s].shown

\* The cases of the log of session s whose variant is v, and all its cases.
CasesOfVariant(s, v) ==
    LET ev == EventsOf(run[s].log)
    IN  {c \in CaseIds(ev) : Variant(ev, c) = v}

AllCases(s) == CaseIds(EventsOf(run[s].log))

\* The case count the claim orders an entry of the selector by.
CaseCount(s, option) == Cardinality(CasesOfVariant(s, option.variant))

\* C12: once the variant filter has run, the selector's list starts with
\* "All", followed by every variant of the log exactly once, a variant of
\* more cases before one of fewer; the chosen entry is one of the list; with
\* "All" chosen the cases analysed are all cases of the log and the number
\* reported is their number; with a variant chosen they are exactly the
\* cases of that variant and the number reported is that variant's count.
C12_VariantSelector ==
    \A s \in Sessions : PastFilter(s) =>
        LET l == run[s].list_of_variants
            chosen == widgets[s].variant
            analysed == CaseIds(FilteredEvents(run[s].log, chosen))
        IN  /\ Len(l) >= 2
            /\ l[1] = {AllVariants}
            /\ UNION {l[i] : i \in 2 .. Len(l)} =
                   {OneVariant(Variant(EventsOf(run[s].log), c)) : c \in AllCases(s)}
            /\ \A i, j \in 2 .. Len(l) : i # j => l[i] \cap l[j] = {}
            /\ \A i, j \in 2 .. Len(l) : \A a \in l[i], b \in l[j] :
                    /\ i < j => CaseCount(s, a) > CaseCount(s, b)
                    /\ i = j => CaseCount(s, a) = CaseCount(s, b)
            /\ \E i \in 1 .. Len(l) : chosen \in l[i]
            /\ chosen.all =>
                    /\ analysed = AllCases(s)
                    /\ run[s].filtered = Cardinality(AllCases(s))
            /\ ~chosen.all =>
                    /\ analysed = CasesOfVariant(s, chosen.variant)
                    /\ run[s].filtered = CaseCount(s, chosen)
                    /\ run[s].filtered >= 1

\* A variant of two cases is chosen in a log of several variants with
\* different counts, and the run reports two cases.
C12_Witness ==
    \E s \in Sessions :
        /\ run[s].pc = "done"
        /\ PastFilter(s)
        /\ ~widgets[s].variant.all
        /\ Len(run[s].list_of_variants) >= 3
        /\ run[s].filtered = 2
        /\ Cardinality(AllCases(s)) > 2

=============================================================================
